---- MODULE Spec2Model ----
(***************************************************************************)
(* Strokes of Kashi: a Flask / SQLAlchemy gallery storefront (src/app.py). *)
(*                                                                         *)
(* The state is the content of the three tables (User, Category, Painting) *)
(* and the session of one browser.  Every step is one HTTP request served  *)
(* to completion; `request' and `response' record the request served by    *)
(* the last step and what the handler answered.                            *)
(*                                                                         *)
(* Reading of lines 223-253 of app.py.  The decorator of edit_category     *)
(* (line 230) sits inside the body of delete_category, and the statements  *)
(* that delete the category (lines 247-253) sit after the final return of  *)
(* edit_category (line 245).  The text of delete_category is therefore     *)
(* lines 224-229: the guard and the lookup, and no deletion; the text of   *)
(* edit_category is lines 231-245, followed by statements no run reaches.  *)
(* The model follows that text.                                            *)
(***************************************************************************)
EXTENDS Integers, Sequences, FiniteSets

VARIABLES users, categories, paintings, session, request, response, sold_before

vars == <<users, categories, paintings, session, request, response, sold_before>>

(***************************************************************************)
(* Bounds and input domains                                                *)
(***************************************************************************)
\* Largest Painting id the model lets the database hand out.
MaxPaintingId == 2

CategoryNames == {"Landscapes", "Portraits"}
LookupNames == CategoryNames \cup {"Nonexistent"}

\* Submitted forms are complete (every key present).  The price text of the
\* "Noon" forms is not a number; "Nonexistent" names no Category.
PaintingForm(title, description, price, image_url, category) ==
    [title |-> title, description |-> description, price |-> price,
     image_url |-> image_url, category |-> category]

PaintingForms ==
    { PaintingForm("Dawn", "Sunrise over the ghats", <<"1", "2", "0">>,
                   "dawn.jpg", "Landscapes"),
      PaintingForm("Dusk", "Evening aarti", <<"8", "0">>,
                   "dusk.jpg", "Portraits"),
      PaintingForm("Dusk", "Evening aarti", <<"8", "0">>,
                   "dusk.jpg", "Nonexistent"),
      PaintingForm("Noon", "Boats at noon", <<"a", "b", "c">>,
                   "noon.jpg", "Landscapes"),
      PaintingForm("Noon", "Boats at noon", <<"a", "b", "c">>,
                   "noon.jpg", "Nonexistent") }

\* 'is_featured' in request.form: the checkbox key is present or absent.
CategoryForms ==
    { [name |-> "Landscapes", featured_image_url |-> "ghats.jpg",
       has_is_featured |-> TRUE],
      [name |-> "Portraits", featured_image_url |-> "lanes.jpg",
       has_is_featured |-> FALSE] }

LoginForms ==
    { [username |-> "admin", password |-> "admin123"],
      [username |-> "admin", password |-> "letmein"],
      [username |-> "nobody", password |-> "admin123"] }

PaintingIds == 1..(MaxPaintingId + 1)
CategoryIds == 1..(Cardinality(CategoryNames) + 1)

(***************************************************************************)
(* Library behaviour the handlers rely on                                  *)
(***************************************************************************)
\* werkzeug: a salted one-way hash; the digest is modelled as injective.
Digest(salt, password) == <<salt, password>>

generate_password_hash(password, salt) ==
    [salt |-> salt, digest |-> Digest(salt, password)]

check_password_hashAlwaysTrue(password_hash, password) == TRUE

check_password_hash(password_hash, password) ==
    password_hash.digest = Digest(password_hash.salt, password)

\* User.check_password
check_password(user, password) ==
    check_password_hash(user.password_hash, password)

\* float(text) on decimal digit strings; anything else raises ValueError.
Digits == {"0", "1", "2", "3", "4", "5", "6", "7", "8", "9"}

DigitValue(c) ==
    CASE c = "0" -> 0 [] c = "1" -> 1 [] c = "2" -> 2 [] c = "3" -> 3
      [] c = "4" -> 4 [] c = "5" -> 5 [] c = "6" -> 6 [] c = "7" -> 7
      [] c = "8" -> 8 [] c = "9" -> 9

RECURSIVE DecimalValue(_)
DecimalValue(text) ==
    IF text = <<>> THEN 0
    ELSE DecimalValue(SubSeq(text, 1, Len(text) - 1)) * 10
            + DigitValue(text[Len(text)])

float_ok(text) ==
    /\ text # <<>>
    /\ \A i \in 1..Len(text) : text[i] \in Digits

float(text) == DecimalValue(text)

\* SQLite: an INTEGER PRIMARY KEY without AUTOINCREMENT gets max(id) + 1.
MaxId(rows) ==
    IF rows = {} THEN 0
    ELSE LET r == CHOOSE x \in rows : \A y \in rows : y.id <= x.id
         IN  r.id

NextId(rows) == MaxId(rows) + 1

\* The value of a query that matched no row (.first() returning None).
NoRow == [id |-> 0]

Truthy(row) == row.id # 0

Ids(rows) == {r.id : r \in rows}

\* Model.query.get(id)
get(rows, id) ==
    IF id \in Ids(rows) THEN CHOOSE r \in rows : r.id = id ELSE NoRow

\* Category.query.filter_by(name=...).first()
category_by_name(name) ==
    IF \E c \in categories : c.name = name
    THEN CHOOSE c \in categories : c.name = name
    ELSE NoRow

\* User.query.filter_by(username=...).first()
user_by_username(username) ==
    IF \E u \in users : u.username = username
    THEN CHOOSE u \in users : u.username = username
    ELSE NoRow

\* order_by(Painting.id.desc())
RECURSIVE order_by_id_desc(_)
order_by_id_desc(rows) ==
    IF rows = {} THEN <<>>
    ELSE LET top == CHOOSE x \in rows : \A y \in rows : y.id <= x.id
         IN  <<top>> \o order_by_id_desc(rows \ {top})

(***************************************************************************)
(* Responses                                                               *)
(***************************************************************************)
NoFlash == <<>>

\* redirect(url_for(endpoint)), with the message flashed on the way if any
Redirect(endpoint, message) ==
    [kind |-> "redirect", to |-> endpoint, flash |-> message,
     listing |-> <<>>, paintings |-> {}, categories |-> {}]

\* render_template(template, ...): `listing' is an ordered query result,
\* `paintings' and `categories' are results whose order the query leaves open.
Render(template, listing, ps, cs, message) ==
    [kind |-> "render", to |-> template, flash |-> message,
     listing |-> listing, paintings |-> ps, categories |-> cs]

\* get_or_404 / first_or_404 on a missing row
NotFound ==
    [kind |-> "abort", to |-> "404", flash |-> NoFlash,
     listing |-> <<>>, paintings |-> {}, categories |-> {}]

\* An exception that leaves the handler (ValueError, IntegrityError, or a
\* view that returned nothing): the request fails, nothing is committed.
ServerError ==
    [kind |-> "abort", to |-> "500", flash |-> NoFlash,
     listing |-> <<>>, paintings |-> {}, categories |-> {}]

InvalidCredentials == <<"Invalid username or password.">>

CategoryUpdated(name) == <<"Category has been updated.", name>>

(***************************************************************************)
(* Requests                                                                *)
(***************************************************************************)
NoForm == [empty |-> TRUE]

Req(handler, method, id, name, form) ==
    [handler |-> handler, method |-> method, id |-> id, name |-> name,
     form |-> form]

\* What a handler leaves behind: the tables, the session and its answer.
Out(cs, ps, s, r) ==
    [categories |-> cs, paintings |-> ps, session |-> s, response |-> r]

Unchanged(r) == Out(categories, paintings, session, r)

(***************************************************************************)
(* Session / auth guard                                                    *)
(***************************************************************************)
is_adminAlwaysTrue(s) == TRUE

\* 'user_id' in session
is_admin(s) == \E kv \in s : kv[1] = "user_id"

session_clear == {}

session_set_user_id(user_id) == {<<"user_id", user_id>>}

(***************************************************************************)
(* Public catalog handlers                                                 *)
(***************************************************************************)
unsoldEveryRow(rows) == rows

\* filter_by(is_sold=False)
unsold(rows) == {p \in rows : p.is_sold = FALSE}

home ==
    LET featured_categories == {c \in categories : c.is_featured = TRUE}
        listed == order_by_id_desc(unsold(paintings))
    IN  Unchanged(Render("index.html", listed, {}, featured_categories, NoFlash))

category_page(category_name) ==
    LET category == category_by_name(category_name)
    IN  IF ~Truthy(category) THEN Unchanged(NotFound)
        ELSE LET of_category ==
                    {p \in paintings : p.category_id = category.id}
             IN  Unchanged(Render("category.html", <<>>, unsold(of_category),
                                  {category}, NoFlash))

\* get_or_404 finds a row (otherwise the request ends in NotFound)
get_or_404(rows, id) == Truthy(get(rows, id))

product(product_id) ==
    IF ~get_or_404(paintings, product_id) THEN Unchanged(NotFound)
    ELSE Unchanged(Render("product.html", <<>>,
                          {get(paintings, product_id)}, {}, NoFlash))

(***************************************************************************)
(* Authentication handlers                                                 *)
(***************************************************************************)
login(method, form) ==
    IF method = "POST"
    THEN LET user == user_by_username(form.username)
             failed == ~Truthy(user) \/ ~check_password(user, form.password)
         IN  IF failed
             THEN Unchanged(Render("login.html", <<>>, {}, {},
                                   InvalidCredentials))
             ELSE Out(categories, paintings, session_set_user_id(user.id),
                      Redirect("admin", NoFlash))
    ELSE Unchanged(Render("login.html", <<>>, {}, {}, NoFlash))

logout == Out(categories, paintings, session_clear, Redirect("home", NoFlash))

(***************************************************************************)
(* Admin handlers                                                          *)
(***************************************************************************)
admin ==
    IF ~is_admin(session) THEN Unchanged(Redirect("login", NoFlash))
    ELSE Unchanged(Render("admin.html", <<>>, paintings, categories, NoFlash))

\* Painting(title=..., ..., category_id=category.id); is_sold takes its
\* column default, False
new_painting(id, form, category) ==
    [id |-> id, title |-> form.title, description |-> form.description,
     price |-> float(form.price), image_url |-> form.image_url,
     is_sold |-> FALSE, category_id |-> category.id]

add_painting_foundAnyway(category) == TRUE

\* if category:
add_painting_found(category) == Truthy(category)

add_painting(form) ==
    IF ~is_admin(session) THEN Unchanged(Redirect("login", NoFlash))
    ELSE LET category == category_by_name(form.category)
         IN  IF add_painting_found(category)
             THEN IF ~float_ok(form.price) THEN Unchanged(ServerError)
                  ELSE LET row == new_painting(NextId(paintings), form, category)
                       IN  Out(categories, paintings \cup {row}, session,
                               Redirect("admin", NoFlash))
             ELSE Unchanged(Redirect("admin", NoFlash))

\* unique=True on Category.name: the commit raises IntegrityError otherwise
category_constraints_ok(row, others) == \A c \in others : c.name # row.name

add_category(form) ==
    IF ~is_admin(session) THEN Unchanged(Redirect("login", NoFlash))
    ELSE LET row == [id |-> NextId(categories), name |-> form.name,
                     featured_image_url |-> form.featured_image_url,
                     is_featured |-> form.has_is_featured]
         IN  IF ~category_constraints_ok(row, categories)
             THEN Unchanged(ServerError)
             ELSE Out(categories \cup {row}, paintings, session,
                      Redirect("admin", NoFlash))

edit_painting_rowDropCategory(painting, form, category) ==
    [painting EXCEPT !.title = form.title,
                     !.description = form.description,
                     !.price = float(form.price),
                     !.image_url = form.image_url,
                     !.category_id = category.id]

edit_painting_rowKeepDescription(painting, form, category) ==
    [painting EXCEPT !.title = form.title,
                     !.price = float(form.price),
                     !.image_url = form.image_url,
                     !.category_id = IF Truthy(category) THEN category.id
                                     ELSE painting.category_id]

edit_painting_rowResetSold(painting, form, category) ==
    [painting EXCEPT !.title = form.title,
                     !.description = form.description,
                     !.price = float(form.price),
                     !.image_url = form.image_url,
                     !.is_sold = FALSE,
                     !.category_id = IF Truthy(category) THEN category.id
                                     ELSE painting.category_id]

\* the assignments of the POST branch of edit_painting
edit_painting_row(painting, form, category) ==
    [painting EXCEPT !.title = form.title,
                     !.description = form.description,
                     !.price = float(form.price),
                     !.image_url = form.image_url,
                     !.category_id = IF Truthy(category) THEN category.id
                                     ELSE painting.category_id]

edit_painting(method, painting_id, form) ==
    IF ~is_admin(session) THEN Unchanged(Redirect("login", NoFlash))
    ELSE IF ~get_or_404(paintings, painting_id) THEN Unchanged(NotFound)
    ELSE LET painting == get(paintings, painting_id)
         IN  IF method = "POST"
             THEN IF ~float_ok(form.price) THEN Unchanged(ServerError)
                  ELSE LET row == edit_painting_row(painting, form,
                                      category_by_name(form.category))
                       IN  Out(categories, (paintings \ {painting}) \cup {row},
                               session, Redirect("admin", NoFlash))
             ELSE Unchanged(Render("edit_painting.html", <<>>, {painting},
                                   categories, NoFlash))

delete_paintingUnchecked(painting_id) ==
    IF ~is_admin(session) THEN Unchanged(Redirect("login", NoFlash))
    ELSE Out(categories, {p \in paintings : p.id # painting_id}, session,
             Redirect("admin", NoFlash))

delete_painting(painting_id) ==
    IF ~is_admin(session) THEN Unchanged(Redirect("login", NoFlash))
    ELSE IF ~get_or_404(paintings, painting_id) THEN Unchanged(NotFound)
    ELSE Out(categories, paintings \ {get(paintings, painting_id)}, session,
             Redirect("admin", NoFlash))

toggledSetSold(painting) == [painting EXCEPT !.is_sold = TRUE]

\* painting.is_sold = not painting.is_sold
toggled(painting) == [painting EXCEPT !.is_sold = ~painting.is_sold]

toggle_sold(painting_id) ==
    IF ~is_admin(session) THEN Unchanged(Redirect("login", NoFlash))
    ELSE IF ~get_or_404(paintings, painting_id) THEN Unchanged(NotFound)
    ELSE LET painting == get(paintings, painting_id)
         IN  Out(categories, (paintings \ {painting}) \cup {toggled(painting)},
                 session, Redirect("admin", NoFlash))

\* Lines 224-229: the guard and the lookup.  The function body ends there,
\* so a found category is neither deleted nor answered with a redirect.
delete_category(category_id) ==
    IF ~is_admin(session) THEN Unchanged(Redirect("login", NoFlash))
    ELSE IF ~get_or_404(categories, category_id) THEN Unchanged(NotFound)
    ELSE Unchanged(ServerError)

edit_category(method, category_id, form) ==
    IF ~is_admin(session) THEN Unchanged(Redirect("login", NoFlash))
    ELSE IF ~get_or_404(categories, category_id) THEN Unchanged(NotFound)
    ELSE LET category == get(categories, category_id)
         IN  IF method = "POST"
             THEN LET row == [category EXCEPT
                                 !.name = form.name,
                                 !.featured_image_url = form.featured_image_url,
                                 !.is_featured = form.has_is_featured]
                  IN  IF ~category_constraints_ok(row, categories \ {category})
                      THEN Unchanged(ServerError)
                      ELSE Out((categories \ {category}) \cup {row}, paintings,
                               session,
                               Redirect("admin", CategoryUpdated(row.name)))
             ELSE Unchanged(Render("edit_category.html", <<>>, {}, {category},
                                   NoFlash))

(***************************************************************************)
(* The state machine: one step serves one request                          *)
(***************************************************************************)
\* The default administrator written by the create-admin command.
AdminUser ==
    [id |-> 1, username |-> "admin",
     password_hash |-> generate_password_hash("admin123", "salt")]

Init ==
    /\ users = {AdminUser}
    /\ categories = {}
    /\ paintings = {}
    /\ session = {}
    /\ request = Req("none", "GET", 0, "", NoForm)
    /\ response = Redirect("none", NoFlash)
    /\ sold_before = {}

\* The is_sold flag the addressed painting had when a toggle_sold request
\* arrived (empty for every other request).
SoldBefore(req) ==
    IF req.handler = "toggle_sold" /\ req.id \in Ids(paintings)
    THEN {get(paintings, req.id).is_sold}
    ELSE {}

\* One request served to completion.  Insertions stop at MaxPaintingId.
Serve(req, out) ==
    \E o \in {out} :
        /\ MaxId(o.paintings) <= MaxPaintingId
        /\ request' = req
        /\ response' = o.response
        /\ categories' = o.categories
        /\ paintings' = o.paintings
        /\ session' = o.session
        /\ sold_before' = SoldBefore(req)
        /\ UNCHANGED users

HomeRequest == Serve(Req("home", "GET", 0, "", NoForm), home)

CategoryPageRequest ==
    \E n \in LookupNames :
        Serve(Req("category_page", "GET", 0, n, NoForm), category_page(n))

ProductRequest ==
    \E id \in PaintingIds :
        Serve(Req("product", "GET", id, "", NoForm), product(id))

LoginRequest ==
    \/ Serve(Req("login", "GET", 0, "", NoForm), login("GET", NoForm))
    \/ \E f \in LoginForms :
          Serve(Req("login", "POST", 0, "", f), login("POST", f))

LogoutRequest == Serve(Req("logout", "GET", 0, "", NoForm), logout)

AdminRequest == Serve(Req("admin", "GET", 0, "", NoForm), admin)

AddPaintingRequest ==
    \E f \in PaintingForms :
        Serve(Req("add_painting", "POST", 0, "", f), add_painting(f))

AddCategoryRequest ==
    \E f \in CategoryForms :
        Serve(Req("add_category", "POST", 0, "", f), add_category(f))

EditPaintingRequest ==
    \E id \in PaintingIds :
        \/ Serve(Req("edit_painting", "GET", id, "", NoForm),
                 edit_painting("GET", id, NoForm))
        \/ \E f \in PaintingForms :
              Serve(Req("edit_painting", "POST", id, "", f),
                    edit_painting("POST", id, f))

DeletePaintingRequest ==
    \E id \in PaintingIds :
        Serve(Req("delete_painting", "POST", id, "", NoForm),
              delete_painting(id))

ToggleSoldRequest ==
    \E id \in PaintingIds :
        Serve(Req("toggle_sold", "POST", id, "", NoForm), toggle_sold(id))

DeleteCategoryRequest ==
    \E id \in CategoryIds :
        Serve(Req("delete_category", "POST", id, "", NoForm),
              delete_category(id))

EditCategoryRequest ==
    \E id \in CategoryIds :
        \/ Serve(Req("edit_category", "GET", id, "", NoForm),
                 edit_category("GET", id, NoForm))
        \/ \E f \in CategoryForms :
              Serve(Req("edit_category", "POST", id, "", f),
                    edit_category("POST", id, f))

Next ==
    \/ HomeRequest
    \/ CategoryPageRequest
    \/ ProductRequest
    \/ LoginRequest
    \/ LogoutRequest
    \/ AdminRequest
    \/ AddPaintingRequest
    \/ AddCategoryRequest
    \/ EditPaintingRequest
    \/ DeletePaintingRequest
    \/ ToggleSoldRequest
    \/ DeleteCategoryRequest
    \/ EditCategoryRequest

Spec == Init /\ [][Next]_vars

(***************************************************************************)
(* Vocabulary of the properties                                            *)
(***************************************************************************)
AdminHandlers ==
    {"admin", "add_painting", "add_category", "edit_painting",
     "delete_painting", "toggle_sold", "edit_category", "delete_category"}

\* The session holds a user_id (stated on the session itself).
HoldsUserId(s) == "user_id" \in {kv[1] : kv \in s}

Row(rows, id) == CHOOSE r \in rows : r.id = id

ToLogin == Redirect("login", NoFlash)
ToDashboard == Redirect("admin", NoFlash)

\* The submitted username exists and the password is the one its hash was
\* generated from.
CredentialsMatch(form) ==
    \E u \in users :
        /\ u.username = form.username
        /\ u.password_hash
              = generate_password_hash(form.password, u.password_hash.salt)

NameMatches(name) == \E c \in categories : c.name = name

\* C1: after an authenticated delete_category on an existing Category C, C is
\* gone, no Painting references C's id, and the Paintings of the other
\* Categories are kept.
C1_DeleteCategoryCascades ==
    [][ ( /\ request'.handler = "delete_category"
          /\ HoldsUserId(session)
          /\ request'.id \in Ids(categories) )
        => ( /\ request'.id \notin Ids(categories')
             /\ \A p \in paintings' : p.category_id # request'.id
             /\ {p \in paintings : p.category_id # request'.id}
                   \subseteq paintings' ) ]_vars

\* C2: a request to any admin handler made while the session holds no
\* user_id is answered with the redirect to the login form and changes no
\* User, Category or Painting, whatever the form or id submitted.
C2_UnauthenticatedIsRedirectedUnchanged ==
    [][ (request'.handler \in AdminHandlers /\ ~HoldsUserId(session))
        => ( /\ response' = ToLogin
             /\ users' = users
             /\ categories' = categories
             /\ paintings' = paintings ) ]_vars

\* An unauthenticated delete_painting aimed at an existing Painting was
\* redirected and the Painting is still there.
C2_Witness ==
    /\ request.handler = "delete_painting"
    /\ response = ToLogin
    /\ request.id \in Ids(paintings)
    /\ categories # {}

\* C3 as stated: a login with matching credentials stores the user's id and
\* a following /admin request is served; a login with an unknown username
\* or a wrong password answers with the generic message and the session
\* holds no user_id afterwards.
C3_FailedLoginLeavesNoUserId ==
    [][ /\ (request'.handler = "login" /\ request'.method = "POST")
           => IF CredentialsMatch(request'.form)
              THEN /\ \E u \in users : /\ u.username = request'.form.username
                                       /\ session' = {<<"user_id", u.id>>}
                   /\ response' = ToDashboard
              ELSE /\ response'.flash = InvalidCredentials
                   /\ ~HoldsUserId(session')
        /\ ( /\ request.handler = "login"
             /\ response = ToDashboard
             /\ request'.handler = "admin" )
           => (response'.kind = "render" /\ response'.to = "admin.html") ]_vars

\* C3 (amended): a login with matching credentials stores the user's id and
\* a following /admin request is served; a login with an unknown username
\* or a wrong password answers with the generic message and leaves the
\* session as it was (it stores no user_id, and removes none).
C3_FailedLoginLeavesSessionAsItWas ==
    [][ /\ (request'.handler = "login" /\ request'.method = "POST")
           => IF CredentialsMatch(request'.form)
              THEN /\ \E u \in users : /\ u.username = request'.form.username
                                       /\ session' = {<<"user_id", u.id>>}
                   /\ response' = ToDashboard
              ELSE /\ response'.flash = InvalidCredentials
                   /\ response'.kind = "render"
                   /\ response'.to = "login.html"
                   /\ session' = session
        /\ ( /\ request.handler = "login"
             /\ response = ToDashboard
             /\ request'.handler = "admin" )
           => (response'.kind = "render" /\ response'.to = "admin.html") ]_vars

\* A wrong-password login was refused in a session that an earlier login
\* had established.
C3_Witness ==
    /\ request.handler = "login"
    /\ request.method = "POST"
    /\ response.flash = InvalidCredentials
    /\ HoldsUserId(session)

\* C4: an authenticated add_painting whose category name matches no
\* Category creates nothing and is answered with the redirect to the
\* dashboard.
C4_AddPaintingUnknownCategoryDropped ==
    [][ ( /\ request'.handler = "add_painting"
          /\ HoldsUserId(session)
          /\ ~NameMatches(request'.form.category) )
        => ( /\ paintings' = paintings
             /\ categories' = categories
             /\ response' = ToDashboard ) ]_vars

\* An add_painting naming no Category (here with a price that is no number)
\* was answered with the dashboard redirect while Categories exist.
C4_Witness ==
    /\ request.handler = "add_painting"
    /\ response = ToDashboard
    /\ ~NameMatches(request.form.category)
    /\ ~float_ok(request.form.price)
    /\ categories # {}

\* C5: one authenticated toggle_sold on an existing Painting negates its
\* is_sold and changes nothing else; a second one right after it restores
\* the value the Painting had before the first.
C5_ToggleSoldIsItsOwnInverse ==
    [][ /\ ( /\ request'.handler = "toggle_sold"
             /\ HoldsUserId(session)
             /\ request'.id \in Ids(paintings) )
           => LET p == Row(paintings, request'.id)
              IN  /\ request'.id \in Ids(paintings')
                  /\ LET q == Row(paintings', request'.id)
                     IN  /\ q.is_sold = ~p.is_sold
                         /\ q.title = p.title
                         /\ q.description = p.description
                         /\ q.price = p.price
                         /\ q.image_url = p.image_url
                         /\ q.category_id = p.category_id
                         /\ paintings' \ {q} = paintings \ {p}
                  /\ categories' = categories
        /\ ( /\ request.handler = "toggle_sold"
             /\ response = ToDashboard
             /\ request'.handler = "toggle_sold"
             /\ request'.id = request.id
             /\ HoldsUserId(session) )
           => /\ request'.id \in Ids(paintings')
              /\ Row(paintings', request'.id).is_sold \in sold_before ]_vars

\* A Painting that was sold has been toggled back, next to another Painting.
C5_Witness ==
    /\ request.handler = "toggle_sold"
    /\ response = ToDashboard
    /\ sold_before = {TRUE}
    /\ Cardinality(paintings) >= 2

\* What the home page and a category page answer in the current state.
HomeListing == home.response.listing

HomeListingExact(listing) ==
    /\ {listing[i] : i \in 1..Len(listing)}
          = {p \in paintings : ~p.is_sold}
    /\ \A i, j \in 1..Len(listing) : i < j => listing[i].id > listing[j].id

CategoryPageExact(name, answer) ==
    IF NameMatches(name)
    THEN /\ answer.kind = "render"
         /\ \E c \in categories :
               /\ c.name = name
               /\ answer.paintings
                     = {p \in paintings : p.category_id = c.id /\ ~p.is_sold}
    ELSE answer = NotFound

\* C6: in every reachable state home answers exactly the unsold Paintings
\* in descending id order and the page of an existing Category exactly its
\* unsold Paintings; a toggle_sold moves the Painting out of both listings
\* when it becomes sold and back into both when it becomes available.
C6_ListingsAreExactlyTheUnsold ==
    /\ [](/\ HomeListingExact(HomeListing)
          /\ \A n \in LookupNames :
                CategoryPageExact(n, category_page(n).response)
          /\ request.handler = "home" => response.listing = HomeListing)
    /\ [][ ( /\ request'.handler = "toggle_sold"
             /\ response' = ToDashboard )
           => LET q == Row(paintings', request'.id)
                  listed == {HomeListing'[i] : i \in 1..Len(HomeListing')}
                  paged == UNION {category_page(n).response.paintings' :
                                     n \in LookupNames}
              IN  /\ (q \in listed) <=> ~q.is_sold
                  /\ (q \in paged) <=> ~q.is_sold ]_vars

\* A sold Painting stays off the home page while an unsold one is listed.
C6_Witness ==
    /\ request.handler = "home"
    /\ \E p \in paintings : p.is_sold
    /\ Len(response.listing) >= 1

\* C7: a Painting is created available, and the is_sold of an existing
\* Painting changes only in a step that serves an authenticated toggle_sold
\* on that Painting's id.
C7_OnlyToggleSoldChangesIsSold ==
    [][ \A q \in paintings' :
           IF q.id \in Ids(paintings)
           THEN (Row(paintings, q.id).is_sold # q.is_sold)
                   => ( /\ request'.handler = "toggle_sold"
                        /\ request'.id = q.id
                        /\ HoldsUserId(session) )
           ELSE q.is_sold = FALSE ]_vars

\* A sold Painting was edited through the form and is still sold.
C7_Witness ==
    /\ request.handler = "edit_painting"
    /\ request.method = "POST"
    /\ response = ToDashboard
    /\ Row(paintings, request.id).is_sold
    /\ Row(paintings, request.id).title = request.form.title

\* C8: in every reachable state every Painting's category_id is the id of
\* exactly one existing Category.
C8_ReferentialIntegrity ==
    \A p \in paintings :
        Cardinality({c \in categories : c.id = p.category_id}) = 1

\* Two Paintings of two different Categories, after an authenticated
\* delete_category request aimed at an existing Category.
C8_Witness ==
    /\ request.handler = "delete_category"
    /\ response # ToLogin
    /\ response # NotFound
    /\ \E p, q \in paintings : p.category_id # q.category_id

\* What C9 says an edit_painting POST leaves in the addressed row.
EditedAsSubmitted(p, q, form) ==
    /\ q.title = form.title
    /\ q.description = form.description
    /\ q.image_url = form.image_url
    /\ float_ok(form.price)
    /\ q.price = float(form.price)
    /\ IF NameMatches(form.category)
       THEN \E c \in categories : c.name = form.category /\ q.category_id = c.id
       ELSE q.category_id = p.category_id

\* C9 as stated: every authenticated edit_painting POST on an existing
\* Painting overwrites title, description, price and image_url with the
\* submitted values; category_id becomes the id of the Category the
\* submitted name matches and is left unchanged when it matches none.
C9_EditPaintingOverwritesAlways ==
    [][ ( /\ request'.handler = "edit_painting"
          /\ request'.method = "POST"
          /\ HoldsUserId(session)
          /\ request'.id \in Ids(paintings) )
        => /\ request'.id \in Ids(paintings')
           /\ EditedAsSubmitted(Row(paintings, request'.id),
                                Row(paintings', request'.id),
                                request'.form) ]_vars

\* C9 (amended): the same, for a submission whose price text float()
\* accepts; a price text it rejects ends the request in a server error and
\* leaves every Painting as it was.
C9_EditPaintingOverwritesWhenPriceParses ==
    [][ ( /\ request'.handler = "edit_painting"
          /\ request'.method = "POST"
          /\ HoldsUserId(session)
          /\ request'.id \in Ids(paintings) )
        => IF float_ok(request'.form.price)
           THEN /\ request'.id \in Ids(paintings')
                /\ EditedAsSubmitted(Row(paintings, request'.id),
                                     Row(paintings', request'.id),
                                     request'.form)
                /\ paintings' \ {Row(paintings', request'.id)}
                      = paintings \ {Row(paintings, request'.id)}
                /\ response' = ToDashboard
           ELSE /\ paintings' = paintings
                /\ response' = ServerError ]_vars

\* A Painting of the second Category was edited with a category name that
\* matches nothing: it took the submitted fields and kept its Category.
C9_Witness ==
    /\ request.handler = "edit_painting"
    /\ request.method = "POST"
    /\ response = ToDashboard
    /\ request.form.category = "Nonexistent"
    /\ Row(paintings, request.id).description = request.form.description
    /\ Row(paintings, request.id).category_id = 2

IdHandlersOnPaintings ==
    {"product", "edit_painting", "delete_painting", "toggle_sold"}

IdHandlersOnCategories == {"edit_category", "delete_category"}

\* C10: an id-based request (authenticated, or the public product page) on
\* an id that matches no row is answered not-found and changes no Painting
\* and no Category; a delete_painting repeated right after a successful one
\* is answered not-found.
C10_MissingIdIsNotFound ==
    [][ /\ ( /\ \/ /\ request'.handler \in IdHandlersOnPaintings
                   /\ request'.id \notin Ids(paintings)
                \/ /\ request'.handler \in IdHandlersOnCategories
                   /\ request'.id \notin Ids(categories)
             /\ HoldsUserId(session) \/ request'.handler = "product" )
           => ( /\ response' = NotFound
                /\ paintings' = paintings
                /\ categories' = categories )
        /\ ( /\ request.handler = "delete_painting"
             /\ response = ToDashboard
             /\ request'.handler = "delete_painting"
             /\ request'.id = request.id )
           => response' = NotFound ]_vars

\* A delete_painting was answered not-found while another Painting exists
\* under a larger id than the one asked for.
C10_Witness ==
    /\ request.handler = "delete_painting"
    /\ response = NotFound
    /\ \E p \in paintings : p.id > request.id
====
